---- MODULE Spec2Model ----
(***************************************************************************)
(* A model of osaca/data/model_importer.py: the importer that turns the    *)
(* uops.info instruction document into OSACA's per-architecture model      *)
(* table (extract_model) and renders it as CSV (dump_csv).                 *)
(*                                                                         *)
(* Strings the program takes apart (mnemonics, parameter tokens, register  *)
(* names, attribute keys and values, port identifiers, versions) are       *)
(* sequences of one-character strings, so that upper(), endswith(),        *)
(* replace(), split(), int(), str() and sorted() are computed, not         *)
(* assumed.  Strings that are only compared (architecture names, operand   *)
(* types, attribute names of a latency tag) are TLA+ strings.              *)
(* Python floats are modelled as exact rationals <<n, d>> in lowest terms. *)
(***************************************************************************)
EXTENDS Integers, Sequences, FiniteSets, TLC

VARIABLES
    doc,         \* the parsed document: the sequence of instruction tags
    arch,        \* the architecture being extracted
    pos,         \* number of instruction tags extract_model has consumed
    parameters,  \* extract_model's local `parameters` (unbound at first)
    model_data,  \* extract_model's result list
    origin,      \* history: for each entry of model_data, the index in doc
                 \* of the instruction whose iteration appended it
    stderr,      \* the diagnostics printed so far
    pc,          \* "extract", "dump", "done" or "crashed"
    nports,      \* Scheduler.arch_dict[arch] + len(arch_pipeline_ports[arch])
    rows,        \* the CSV rows dump_csv has rendered
    port_occupancy,  \* extract_model's list of collected vectors, as it is at
                 \* line 120 of the iteration that ran last
    call,        \* a pending call of one of the pure functions
    ret          \* its result

vars == <<doc, arch, pos, parameters, model_data, origin, stderr, pc,
          nports, rows, port_occupancy, call, ret>>

(***************************************************************************)
(* Characters and strings                                                  *)
(***************************************************************************)
\* The characters the model uses, in ASCII order.
AsciiOrder ==
    <<" ", "(", ")", ",", "-", ".",
      "0", "1", "2", "3", "4", "5", "6", "7", "8", "9",
      "A", "B", "C", "D", "E", "F", "G", "H", "I", "J", "K", "L", "M",
      "N", "O", "P", "Q", "R", "S", "T", "U", "V", "W", "X", "Y", "Z",
      "_",
      "a", "b", "c", "d", "e", "f", "g", "h", "i", "j", "k", "l", "m",
      "n", "o", "p", "q", "r", "s", "t", "u", "v", "w", "x", "y", "z",
      "{", "}">>

OrdOf ==
    [c \in {AsciiOrder[k] : k \in 1..Len(AsciiOrder)} |->
        CHOOSE k \in 1..Len(AsciiOrder) : AsciiOrder[k] = c]
Ord(c) == OrdOf[c]

IsDigit(c) == Ord(c) \in Ord("0")..Ord("9")
IsUpperCase(c) == Ord(c) \in Ord("A")..Ord("Z")
IsLowerCase(c) == Ord(c) \in Ord("a")..Ord("z")

\* str.upper() and str.lower()
Upper(s) ==
    [k \in 1..Len(s) |->
        IF IsLowerCase(s[k]) THEN AsciiOrder[Ord(s[k]) - Ord("a") + Ord("A")]
        ELSE s[k]]

Lower(s) ==
    [k \in 1..Len(s) |->
        IF IsUpperCase(s[k]) THEN AsciiOrder[Ord(s[k]) - Ord("A") + Ord("a")]
        ELSE s[k]]

\* s.startswith(t), s.endswith(t)
StartsWith(s, t) == Len(t) <= Len(s) /\ SubSeq(s, 1, Len(t)) = t
EndsWith(s, t) == Len(t) <= Len(s) /\ SubSeq(s, Len(s) - Len(t) + 1, Len(s)) = t

\* t in s
Contains(s, t) ==
    \E k \in 1..(Len(s) - Len(t) + 1) : SubSeq(s, k, k + Len(t) - 1) = t

\* s.replace(t, u), for a non-empty t
RECURSIVE Replace(_, _, _)
Replace(s, t, u) ==
    IF s = <<>> THEN <<>>
    ELSE IF StartsWith(s, t)
         THEN u \o Replace(SubSeq(s, Len(t) + 1, Len(s)), t, u)
         ELSE <<s[1]>> \o Replace(Tail(s), t, u)

\* s.strip(): leading and trailing spaces removed
RECURSIVE Strip(_)
Strip(s) ==
    IF s = <<>> THEN s
    ELSE IF s[1] = " " THEN Strip(Tail(s))
    ELSE IF s[Len(s)] = " " THEN Strip(SubSeq(s, 1, Len(s) - 1))
    ELSE s

\* s.split(","): the list of the pieces between commas
RECURSIVE Split(_, _)
Split(s, sep) ==
    IF \E k \in 1..Len(s) : s[k] = sep
    THEN LET k == CHOOSE j \in 1..Len(s) :
                     s[j] = sep /\ \A h \in 1..(j - 1) : s[h] # sep
         IN <<SubSeq(s, 1, k - 1)>> \o Split(SubSeq(s, k + 1, Len(s)), sep)
    ELSE <<s>>

\* int(s) succeeds on a non-empty run of decimal digits
IsNumeric(s) == s # <<>> /\ \A k \in 1..Len(s) : IsDigit(s[k])

RECURSIVE ParseInt(_)
ParseInt(s) ==
    IF s = <<>> THEN 0
    ELSE 10 * ParseInt(SubSeq(s, 1, Len(s) - 1)) + (Ord(s[Len(s)]) - Ord("0"))

\* str(n) of a natural number
RECURSIVE Str(_)
Str(n) ==
    IF n < 10 THEN <<AsciiOrder[Ord("0") + n]>>
    ELSE Str(n \div 10) \o <<AsciiOrder[Ord("0") + (n % 10)]>>

\* s < t in Python's string order
RECURSIVE StrLess(_, _)
StrLess(s, t) ==
    IF t = <<>> THEN FALSE
    ELSE IF s = <<>> THEN TRUE
    ELSE IF s[1] = t[1] THEN StrLess(Tail(s), Tail(t))
    ELSE Ord(s[1]) < Ord(t[1])

\* sep.join(list)
RECURSIVE Join(_, _)
Join(list, sep) ==
    IF list = <<>> THEN <<>>
    ELSE IF Len(list) = 1 THEN list[1]
    ELSE list[1] \o sep \o Join(Tail(list), sep)

\* sorted(set of strings)
RECURSIVE SortedStrings(_)
SortedStrings(S) ==
    IF S = {} THEN <<>>
    ELSE LET m == CHOOSE x \in S : \A y \in S \ {x} : StrLess(x, y)
         IN <<m>> \o SortedStrings(S \ {m})

\* All sequences over S of length at most n.
SeqUpTo(S, n) == UNION {[1..k -> S] : k \in 0..n}

\* Python's None, and a present value.
None == [some |-> FALSE]
Some(v) == [some |-> TRUE, val |-> v]

(***************************************************************************)
(* Exact rationals <<n, d>>, d > 0, in lowest terms                        *)
(***************************************************************************)
RECURSIVE GCD(_, _)
GCD(a, b) == IF b = 0 THEN a ELSE GCD(b, a % b)

Frac(n, d) == LET g == GCD(n, d) IN <<n \div g, d \div g>>
RInt(n) == <<n, 1>>
RAdd(x, y) == Frac(x[1] * y[2] + y[1] * x[2], x[2] * y[2])
RLeq(x, y) == x[1] * y[2] <= y[1] * x[2]

\* max(list) of a non-empty set of rationals
RMax(S) == CHOOSE x \in S : \A y \in S : RLeq(y, x)

RECURSIVE RSum(_)
RSum(list) == IF list = <<>> THEN RInt(0) ELSE RAdd(list[1], RSum(Tail(list)))

(***************************************************************************)
(* Sorting with a key, as Python's stable sorted(list, key=...)            *)
(***************************************************************************)
\* Python's order on tuples of integers
RECURSIVE TupleLess(_, _)
TupleLess(s, t) ==
    IF t = <<>> THEN FALSE
    ELSE IF s = <<>> THEN TRUE
    ELSE IF s[1] = t[1] THEN TupleLess(Tail(s), Tail(t))
    ELSE s[1] < t[1]

\* x goes behind every element whose key is not greater than its own
RECURSIVE InsertSorted(_, _)
InsertSorted(sorted, x) ==
    IF sorted = <<>> THEN <<x>>
    ELSE IF TupleLess(x.key, sorted[1].key) THEN <<x>> \o sorted
    ELSE <<sorted[1]>> \o InsertSorted(Tail(sorted), x)

\* list is a sequence of [key |-> tuple of integers, item |-> ...]
RECURSIVE StableSort(_)
StableSort(list) ==
    IF list = <<>> THEN <<>>
    ELSE InsertSorted(StableSort(SubSeq(list, 1, Len(list) - 1)), list[Len(list)])

Items(list) == [k \in 1..Len(list) |-> list[k].item]

(***************************************************************************)
(* normalize_reg_name                                                      *)
(***************************************************************************)
IsOctal(c) == Ord(c) \in Ord("0")..Ord("7")

\* re.sub(r'{K([0-7])}', r'K\1', s)
RECURSIVE SubMask(_)
SubMask(s) ==
    IF s = <<>> THEN <<>>
    ELSE IF Len(s) >= 4 /\ s[1] = "{" /\ s[2] = "K" /\ IsOctal(s[3]) /\ s[4] = "}"
         THEN <<"K", s[3]>> \o SubMask(SubSeq(s, 5, Len(s)))
         ELSE <<s[1]>> \o SubMask(Tail(s))

\* re.sub(r'ST\(([0-7])\)', r'ST\1', s)
RECURSIVE SubStack(_)
SubStack(s) ==
    IF s = <<>> THEN <<>>
    ELSE IF /\ Len(s) >= 5 /\ s[1] = "S" /\ s[2] = "T" /\ s[3] = "("
            /\ IsOctal(s[4]) /\ s[5] = ")"
         THEN <<"S", "T", s[4]>> \o SubStack(SubSeq(s, 6, Len(s)))
         ELSE <<s[1]>> \o SubStack(Tail(s))

normalize_reg_name(reg_name) == SubStack(SubMask(Strip(reg_name)))

(***************************************************************************)
(* port_occupancy_from_tag_attributes                                      *)
(* attrib is a dict: a function from attribute names to attribute values,  *)
(* both strings.  The result is a dict from port identifiers to rationals. *)
(***************************************************************************)
RECURSIVE LeadingDigits(_)
LeadingDigits(s) ==
    IF s # <<>> /\ IsDigit(s[1]) THEN <<s[1]>> \o LeadingDigits(Tail(s))
    ELSE <<>>

\* m.group(1) of re.match('^port([0-9]+)', k); <<>> when there is no match
PortMatch(k) ==
    IF StartsWith(k, <<"p", "o", "r", "t">>)
    THEN LeadingDigits(SubSeq(k, 5, Len(k)))
    ELSE <<>>

div_cycles == <<"d", "i", "v", "_", "c", "y", "c", "l", "e", "s">>
Port0DV == <<"0", "D", "V">>

\* The ports a counter is credited to, after the port-7 rule.
NoPort7Rule(ports, a) == ports
PotentialPorts(ports, a) ==
    IF a \in {"HSW", "BDW", "SKL", "SKX"} /\ ports = <<"2", "3", "7">>
    THEN Replace(ports, <<"7">>, <<>>)
    ELSE ports

\* int(v) / len(potential_ports)
PerPortOccupancy(v, potential_ports) == Frac(ParseInt(v), Len(potential_ports))

\* What the loop adds to occupancy[pp] while it visits the keys in `keys`.
RECURSIVE Credited(_, _, _, _)
Credited(attrib, a, keys, pp) ==
    IF keys = {} THEN RInt(0)
    ELSE LET k == CHOOSE x \in keys : TRUE
             potential_ports == PotentialPorts(PortMatch(k), a)
             hits == {j \in 1..Len(potential_ports) : <<potential_ports[j]>> = pp}
             per == PerPortOccupancy(attrib[k], potential_ports)
         IN RAdd(<<per[1] * Cardinality(hits), per[2]>>,
                 Credited(attrib, a, keys \ {k}, pp))

port_occupancy_from_tag_attributes(attrib, a) ==
    LET counters == {k \in DOMAIN attrib : PortMatch(k) # <<>>}
        touched == UNION {{<<PotentialPorts(PortMatch(k), a)[j]>> :
                              j \in 1..Len(PotentialPorts(PortMatch(k), a))} :
                          k \in counters}
        occupancy == [pp \in touched |-> Credited(attrib, a, counters, pp)]
    IN IF div_cycles \in DOMAIN attrib
       THEN [pp \in touched \cup {Port0DV} |->
                IF pp = Port0DV THEN RInt(ParseInt(attrib[div_cycles]))
                ELSE occupancy[pp]]
       ELSE occupancy

(***************************************************************************)
(* extract_paramters                                                       *)
(* An operand tag is [idx, suppressed, type, text]: idx and suppressed are *)
(* the attribute strings (suppressed is "0" when the attribute is absent), *)
(* type is the type attribute and text the tag's text.                     *)
(***************************************************************************)
imd == <<"i", "m", "d">>
mem == <<"m", "e", "m">>
LBL == <<"L", "B", "L">>
opmask == <<"{", "o", "p", "m", "a", "s", "k", "}">>
GPR == <<"G", "P", "R">>

\* Register.sizes.get(r, None) of osaca/param.py: Some(<<width, class>>) for
\* the register names the model's documents use, None for any other name.
Register_sizes(r) ==
    CASE r = <<"A", "L">>           -> Some(<<8, GPR>>)
      [] r = <<"A", "X">>           -> Some(<<16, GPR>>)
      [] r = <<"E", "A", "X">>      -> Some(<<32, GPR>>)
      [] r = <<"E", "B", "X">>      -> Some(<<32, GPR>>)
      [] r = <<"R", "A", "X">>      -> Some(<<64, GPR>>)
      [] r = <<"X", "M", "M", "0">> -> Some(<<128, <<"X", "M", "M">>>>)
      [] r = <<"Z", "M", "M", "0">> -> Some(<<512, <<"Z", "M", "M">>>>)
      [] r = <<"Z", "M", "M", "1">> -> Some(<<512, <<"Z", "M", "M">>>>)
      [] r = <<"K", "1">>           -> Some(<<64, <<"K">>>>)
      [] r = <<"K", "2">>           -> Some(<<64, <<"K">>>>)
      [] r = <<"S", "T", "0">>      -> Some(<<80, <<"S", "T">>>>)
      [] OTHER                      -> None

Returned(v) == [ok |-> TRUE, val |-> v]
Raised(e) == [ok |-> FALSE, err |-> e]

\* sorted(instruction_tag.findall("operand"), key=lambda p: int(p.attrib['idx']))
parameter_tags(operands) ==
    Items(StableSort([k \in 1..Len(operands) |->
                        [key |-> <<ParseInt(operands[k].idx)>>, item |-> operands[k]]]))

\* The loop over the remaining tags, with the list built so far.
RECURSIVE ParametersFrom(_, _)
ParametersFrom(tags, params) ==
    IF tags = <<>> THEN Returned(params)
    ELSE
      LET parameter_tag == tags[1]
          rest == Tail(tags)
          p_type == parameter_tag.type
          names == Split(parameter_tag.text, ",")
          possible_regs == [k \in 1..Len(names) |-> normalize_reg_name(names[k])]
          reg_groups == [k \in 1..Len(names) |-> Register_sizes(possible_regs[k])]
      IN
      IF ParseInt(parameter_tag.suppressed) # 0 THEN ParametersFrom(rest, params)
      ELSE IF p_type = "imm" THEN ParametersFrom(rest, Append(params, imd))
      ELSE IF p_type = "mem" THEN ParametersFrom(rest, Append(params, mem))
      ELSE IF p_type = "reg" THEN
        IF SubSeq(reg_groups, 2, Len(reg_groups))
              = SubSeq(reg_groups, 1, Len(reg_groups) - 1)
        THEN
          IF reg_groups[1] = None THEN Raised("ValueError")
          ELSE IF reg_groups[1].val[2] = GPR
            THEN ParametersFrom(rest, Append(params, <<"r">> \o Str(reg_groups[1].val[1])))
          ELSE IF Contains(parameter_tag.text, <<"{">>)
            THEN IF params = <<>> THEN Raised("IndexError")
                 ELSE ParametersFrom(rest,
                        [params EXCEPT ![Len(params)] = @ \o opmask])
          ELSE ParametersFrom(rest, Append(params, Lower(reg_groups[1].val[2])))
        ELSE ParametersFrom(rest, params)
      ELSE IF p_type = "relbr" THEN ParametersFrom(rest, Append(params, LBL))
      ELSE IF p_type = "agen" THEN ParametersFrom(rest, Append(params, mem))
      ELSE Raised("ValueError")

extract_paramters(operands) == ParametersFrom(parameter_tags(operands), <<>>)

(***************************************************************************)
(* build_variants: the sequence of <<mnemonic, parameters>> it yields      *)
(***************************************************************************)
AllOf(iterator) == \A k \in 1..Len(iterator) : iterator[k]
all_or_false(iterator) ==
    IF iterator = <<>> THEN FALSE ELSE \A k \in 1..Len(iterator) : iterator[k]

suffixes ==
    << [s |-> <<"Q">>, reg |-> <<"r", "6", "4">>],
       [s |-> <<"L">>, reg |-> <<"r", "3", "2">>],
       [s |-> <<"W">>, reg |-> <<"r", "1", "6">>],
       [s |-> <<"B">>, reg |-> <<"r", "8">>] >>

\* The variants of the "With suffix" loop from suffix number k on.
RECURSIVE WithSuffix(_, _, _)
WithSuffix(mnemonic, params, k) ==
    IF k > Len(suffixes) THEN <<>>
    ELSE LET s == suffixes[k].s
             reg == suffixes[k].reg
             NotMemImd(p) == p \notin {mem, imd}
             tested == SelectSeq(params, NotMemImd)
             matches == [j \in 1..Len(tested) |-> tested[j] = reg]
         IN (IF ~EndsWith(mnemonic, s) /\ all_or_false(matches)
             THEN << <<mnemonic \o s, params>> >>
             ELSE <<>>)
            \o WithSuffix(mnemonic, params, k + 1)

\* The "Without opmask" yield.
SuffixedWithoutOpmask(mnemonic, params) ==
    IF \E k \in 1..Len(params) : Contains(params[k], opmask)
    THEN LET stripped == [k \in 1..Len(params) |-> Replace(params[k], opmask, <<>>)]
         IN << <<mnemonic, stripped>> >> \o WithSuffix(mnemonic, stripped, 1)
    ELSE <<>>
WithoutOpmask(mnemonic, params) ==
    IF \E k \in 1..Len(params) : Contains(params[k], opmask)
    THEN << <<mnemonic, [k \in 1..Len(params) |-> Replace(params[k], opmask, <<>>)]>> >>
    ELSE <<>>

build_variants(mnemonic0, params) ==
    LET mnemonic == Upper(mnemonic0)
    IN << <<mnemonic, params>> >>
       \o WithoutOpmask(mnemonic, params)
       \o WithSuffix(mnemonic, params, 1)

(***************************************************************************)
(* Bounds and input domains                                                *)
(***************************************************************************)
MaxCounters == 2    \* port counters of one attribute map
MaxVal == 2         \* value of a counter

\* The architectures of the port-7 rule, and one that is not among them.
Archs == {"HSW", "BDW", "SKL", "SKX", "SNB"}

PortDigits == {"2", "3", "7"}

\* uops.info names a counter by its ports in ascending order: port23, port015.
DigitStrings ==
    {ds \in SeqUpTo(PortDigits, Cardinality(PortDigits)) :
        /\ ds # <<>>
        /\ \A k \in 1..(Len(ds) - 1) : Ord(ds[k]) < Ord(ds[k + 1])}

CounterKeys == {<<"p", "o", "r", "t">> \o ds : ds \in DigitStrings}
Values == {Str(v) : v \in 0..MaxVal}

\* Attribute maps: at most MaxCounters port counters, div_cycles or not.
PortAttribs ==
    UNION {[K -> Values] :
             K \in {K \in SUBSET CounterKeys : Cardinality(K) <= MaxCounters}}
DivAttribs == {<<>>} \cup {(div_cycles :> v) : v \in Values}
Attribs == {pa @@ da : pa \in PortAttribs, da \in DivAttribs}

\* The state of the document pipeline while a pure function is exercised.
PipelineIdle ==
    /\ doc = <<>> /\ pos = 0 /\ parameters = None /\ model_data = <<>>
    /\ origin = <<>> /\ stderr = <<>> /\ pc = "idle" /\ nports = 0 /\ rows = <<>>
    /\ port_occupancy = <<>>

PipelineUnchanged ==
    UNCHANGED <<doc, arch, pos, parameters, model_data, origin, stderr, pc,
                nports, rows, port_occupancy>>

(***************************************************************************)
(* SpecPO: port_occupancy_from_tag_attributes on every attribute map       *)
(***************************************************************************)
InitPO ==
    /\ PipelineIdle
    /\ arch \in Archs
    /\ call \in {[fn |-> "port_occupancy_from_tag_attributes", attrib |-> a] :
                    a \in Attribs}
    /\ ret = None

CallPortOccupancy ==
    /\ call.fn = "port_occupancy_from_tag_attributes"
    /\ ret = None
    /\ ret' = Some(port_occupancy_from_tag_attributes(call.attrib, arch))
    /\ UNCHANGED call
    /\ PipelineUnchanged

NextPO == CallPortOccupancy

SpecPO == InitPO /\ [][NextPO]_vars

(***************************************************************************)
(* C3                                                                      *)
(***************************************************************************)
\* The ports claim C3 says a counter named port<ds> is credited to.
C3_Sharers(ds, a) ==
    IF a \in {"HSW", "BDW", "SKL", "SKX"} /\ ds = <<"2", "3", "7">>
    THEN {<<"2">>, <<"3">>}
    ELSE {<<ds[k]>> : k \in 1..Len(ds)}

\* The sum, over the counters of attrib that share with port pp, of value
\* divided by number of sharers.
C3_Expected(attrib, a, pp) ==
    LET keys == SortedStrings({k \in DOMAIN attrib \cap CounterKeys :
                                  pp \in C3_Sharers(SubSeq(k, 5, Len(k)), a)})
    IN RSum([j \in 1..Len(keys) |->
                Frac(ParseInt(attrib[keys[j]]),
                     Cardinality(C3_Sharers(SubSeq(keys[j], 5, Len(keys[j])), a)))])

\* C3: every port named by a counter's digits receives the counter's value
\* divided by the number of digits, contributions of several counters add up,
\* and the occupancies of all ports add up to the sum of the counters; on HSW,
\* BDW, SKL and SKX the counter port237 is credited half to port 2 and half to
\* port 3 and port 7 gets nothing from it; div_cycles is port 0DV's value,
\* whole.
C3_PortSplit ==
    (call.fn = "port_occupancy_from_tag_attributes" /\ ret # None) =>
      LET attrib == call.attrib
          occupancy == ret.val
          counters == DOMAIN attrib \cap CounterKeys
          credited == UNION {C3_Sharers(SubSeq(k, 5, Len(k)), arch) : k \in counters}
          ports == SortedStrings(credited)
          keys == SortedStrings(counters)
      IN /\ DOMAIN occupancy \ {Port0DV} = credited
         /\ \A pp \in credited : occupancy[pp] = C3_Expected(attrib, arch, pp)
         /\ RSum([j \in 1..Len(ports) |-> occupancy[ports[j]]])
              = RSum([j \in 1..Len(keys) |-> RInt(ParseInt(attrib[keys[j]]))])
         /\ (div_cycles \in DOMAIN attrib) <=> (Port0DV \in DOMAIN occupancy)
         /\ div_cycles \in DOMAIN attrib =>
              occupancy[Port0DV] = RInt(ParseInt(attrib[div_cycles]))

\* port237 = 2 and port2 = 1 with div_cycles = 2 on SKL: port 2 holds 2 cycles,
\* port 3 one, port 7 is absent and 0DV holds 2.
C3_Witness ==
    /\ ret # None
    /\ call.fn = "port_occupancy_from_tag_attributes"
    /\ arch = "SKL"
    /\ DOMAIN call.attrib = {<<"p", "o", "r", "t", "2", "3", "7">>,
                             <<"p", "o", "r", "t", "2">>, div_cycles}
    /\ call.attrib[<<"p", "o", "r", "t", "2", "3", "7">>] = <<"2">>
    /\ call.attrib[<<"p", "o", "r", "t", "2">>] = <<"1">>
    /\ call.attrib[div_cycles] = <<"2">>
    /\ ret.val = (<<"2">> :> <<2, 1>>) @@ (<<"3">> :> <<1, 1>>) @@ (Port0DV :> <<2, 1>>)

(***************************************************************************)
(* SpecBV: build_variants on every mnemonic and parameter list             *)
(***************************************************************************)
MaxMnemonic == 2    \* characters of a mnemonic
MaxParams == 2      \* tokens of a parameter list

MnemonicChars == {"a", "q", "Q", "L", "W", "B"}
Mnemonics == SeqUpTo(MnemonicChars, MaxMnemonic) \ {<<>>}

r64 == <<"r", "6", "4">>
r32 == <<"r", "3", "2">>
r16 == <<"r", "1", "6">>
r8 == <<"r", "8">>
zmm == <<"z", "m", "m">>

\* Tokens as extract_paramters builds them.
Tokens == {r64, r32, r16, r8, mem, imd, zmm, zmm \o opmask, r32 \o opmask}
ParameterLists == SeqUpTo(Tokens, MaxParams)

InitBV ==
    /\ PipelineIdle
    /\ arch = "SKL"
    /\ call \in {[fn |-> "build_variants", mnemonic |-> m, parameters |-> p] :
                    m \in Mnemonics, p \in ParameterLists}
    /\ ret = None

CallBuildVariants ==
    /\ call.fn = "build_variants"
    /\ ret = None
    /\ ret' = Some(build_variants(call.mnemonic, call.parameters))
    /\ UNCHANGED call
    /\ PipelineUnchanged

NextBV == CallBuildVariants

SpecBV == InitBV /\ [][NextBV]_vars

Yields(list) == {list[k] : k \in 1..Len(list)}

\* The register token of a width suffix, as C7 lists them.
C7_Widths ==
    {<<<<"Q">>, r64>>, <<<<"L">>, r32>>, <<<<"W">>, r16>>, <<<<"B">>, r8>>}

C7_Registerlike(params) == {k \in 1..Len(params) : params[k] \notin {mem, imd}}

\* C7 as claimed: mnemonic+s is yielded with the unchanged list if and only if
\* the uppercased mnemonic does not end with s and every token other than mem
\* and imd is the register token of that width, also when there is no such
\* token.
C7_SuffixIffAllMatch_AsClaimed ==
    (call.fn = "build_variants" /\ ret # None) =>
      \A w \in C7_Widths :
        (<<Upper(call.mnemonic) \o w[1], call.parameters>> \in Yields(ret.val))
          <=> /\ ~EndsWith(Upper(call.mnemonic), w[1])
              /\ \A k \in C7_Registerlike(call.parameters) :
                   call.parameters[k] = w[2]

\* C7 amended: mnemonic+s is yielded with the unchanged list if and only if
\* the uppercased mnemonic does not end with s, the list has at least one
\* token other than mem and imd, and every such token is the register token
\* of that width.
C7_SuffixIffAllMatch ==
    (call.fn = "build_variants" /\ ret # None) =>
      \A w \in C7_Widths :
        (<<Upper(call.mnemonic) \o w[1], call.parameters>> \in Yields(ret.val))
          <=> /\ ~EndsWith(Upper(call.mnemonic), w[1])
              /\ C7_Registerlike(call.parameters) # {}
              /\ \A k \in C7_Registerlike(call.parameters) :
                   call.parameters[k] = w[2]

\* "a" with [r32, r32] yields A and AL, and none of AQ, AW, AB.
C7_Witness ==
    /\ ret # None
    /\ call.fn = "build_variants"
    /\ call.mnemonic = <<"a">>
    /\ call.parameters = <<r32, r32>>
    /\ ret.val = << <<<<"A">>, <<r32, r32>>>>, <<<<"A", "L">>, <<r32, r32>>>> >>

\* C8: the first yield is the uppercased mnemonic with the list unchanged; the
\* mnemonic is yielded a second time, with the marker removed from every
\* token, if and only if a token carries the marker; every other yield keeps
\* the list unchanged, and with a marker present that is never the stripped
\* list.
C8_OpmaskVariant ==
    (call.fn = "build_variants" /\ ret # None) =>
      LET m == Upper(call.mnemonic)
          p == call.parameters
          marked == \E k \in 1..Len(p) : Contains(p[k], opmask)
          stripped == [k \in 1..Len(p) |-> Replace(p[k], opmask, <<>>)]
          same == {k \in 1..Len(ret.val) : ret.val[k][1] = m}
      IN /\ ret.val[1] = <<m, p>>
         /\ marked <=> same = {1, 2}
         /\ ~marked <=> same = {1}
         /\ marked => ret.val[2] = <<m, stripped>>
         /\ \A k \in 1..Len(ret.val) \ same :
              /\ ret.val[k][2] = p
              /\ marked => ret.val[k][2] # stripped

\* "a" with [zmm, r32{opmask}] yields A with the list and A with [zmm, r32].
C8_Witness ==
    /\ ret # None
    /\ call.fn = "build_variants"
    /\ call.mnemonic = <<"a">>
    /\ call.parameters = <<r32 \o opmask>>
    /\ ret.val = << <<<<"A">>, <<r32 \o opmask>>>>, <<<<"A">>, <<r32>>>> >>

(***************************************************************************)
(* SpecEP: extract_paramters on every list of operand tags                 *)
(***************************************************************************)
MaxOperands == 2    \* operand tags of an instruction

\* Texts of register operands: one class, two names of one class, two widths,
\* two classes, an unknown name, a known and an unknown name, a vector
\* register, a mask, an x87 register.
RegTexts ==
    { <<"E", "A", "X">>,
      <<"E", "A", "X", ",", "E", "B", "X">>,
      <<"E", "A", "X", ",", "X", "M", "M", "0">>,
      <<"F", "O", "O">>,
      <<"F", "O", "O", ",", "E", "A", "X">>,
      <<"Z", "M", "M", "0", ",", "Z", "M", "M", "1">>,
      <<"{", "K", "1", "}", ",", "{", "K", "2", "}">>,
      <<"S", "T", "(", "0", ")">> }

OperandTags ==
    [idx : {<<"1">>, <<"2">>}, suppressed : {<<"0">>, <<"1">>},
     type : {"reg"}, text : RegTexts]
    \cup
    [idx : {<<"1">>, <<"2">>}, suppressed : {<<"0">>, <<"1">>},
     type : {"imm", "mem", "relbr", "agen", "flags"}, text : {<<>>}]

InitEP ==
    /\ PipelineIdle
    /\ arch = "SKL"
    /\ call \in {[fn |-> "extract_paramters", operands |-> ops] :
                    ops \in SeqUpTo(OperandTags, MaxOperands)}
    /\ ret = None

CallExtractParamters ==
    /\ call.fn = "extract_paramters"
    /\ ret = None
    /\ ret' = Some(extract_paramters(call.operands))
    /\ UNCHANGED call
    /\ PipelineUnchanged

NextEP == CallExtractParamters

SpecEP == InitEP /\ [][NextEP]_vars

\* The register classes the alternatives of a register operand resolve to.
C6_Classes(tag) ==
    LET names == Split(tag.text, ",")
    IN {Register_sizes(normalize_reg_name(names[k])) : k \in 1..Len(names)}

\* A non-suppressed register operand whose alternatives disagree, or are
\* unknown.
C6_Unrecognized(tag) ==
    /\ tag.type = "reg"
    /\ tag.suppressed = <<"0">>
    /\ \/ None \in C6_Classes(tag)
       \/ Cardinality({g.val[2] : g \in C6_Classes(tag) \ {None}}) > 1

\* C6: extract_paramters fails for every instruction that has a non-suppressed
\* register operand whose alternatives resolve to different register classes
\* or to an unknown class.
C6_FailsOnUnrecognized ==
    (call.fn = "extract_paramters" /\ ret # None) =>
      ((\E k \in 1..Len(call.operands) : C6_Unrecognized(call.operands[k]))
         => ~ret.val.ok)

(***************************************************************************)
(* extract_model                                                           *)
(* An instruction tag is [asm, operands, architectures]; an architecture   *)
(* tag is [name, measurement, IACA]; a measurement tag is [attrib,         *)
(* latency], latency being the attribute maps of its latency tags; an IACA *)
(* tag is its attribute map, which holds the key version.                  *)
(* A line of stderr is [msg, at]: at is history, the index in doc of the   *)
(* instruction whose iteration printed the line.                           *)
(***************************************************************************)
version == <<"v", "e", "r", "s", "i", "o", "n">>

\* instruction_tag.find('architecture[@name="' + arch + '"]')
AnyArchTag(instruction_tag, a) ==
    IF instruction_tag.architectures = <<>> THEN None
    ELSE Some(instruction_tag.architectures[1])
ArchTag(instruction_tag, a) ==
    LET tags == instruction_tag.architectures
        hits == {k \in 1..Len(tags) : tags[k].name = a}
    IN IF hits = {} THEN None
       ELSE Some(tags[CHOOSE k \in hits : \A h \in hits : k <= h])

\* [int(l_tag.attrib['cycles']) for l_tag in ... if 'latency' in l_tag.attrib]
Latencies(measurement_tag) ==
    LET HasLatency(l_tag) == "latency" \in DOMAIN l_tag
        l_tags == SelectSeq(measurement_tag.latency, HasLatency)
    IN [k \in 1..Len(l_tags) |-> ParseInt(l_tags[k]["cycles"])]

\* StrictVersion(s).version: (major, minor, patch), patch 0 when absent
StrictVersion(s) ==
    LET parts == Split(s, ".")
    IN <<ParseInt(parts[1]), ParseInt(parts[2]),
         IF Len(parts) >= 3 THEN ParseInt(parts[3]) ELSE 0>>

\* sorted(arch_tag.iter('IACA'), key=lambda i: StrictVersion(i.attrib['version']))
UnsortedIaca(iaca_tags) == iaca_tags
SortedIaca(iaca_tags) ==
    Items(StableSort([k \in 1..Len(iaca_tags) |->
                        [key |-> StrictVersion(iaca_tags[k][version]),
                         item |-> iaca_tags[k]]]))

\* latencies[1:] != latencies[:-1]
NeverContradicting(latencies) == FALSE
Contradicting(latencies) ==
    SubSeq(latencies, 2, Len(latencies)) # SubSeq(latencies, 1, Len(latencies) - 1)

\* The measurement loop (lines 105-115) over the remaining tags; st holds the
\* locals port_occupancy, ignore, latency and what was printed.
RECURSIVE MeasurementLoop(_, _, _, _)
MeasurementLoop(tags, a, at, st) ==
    IF tags = <<>> THEN st
    ELSE
      LET measurement_tag == tags[1]
          latencies == Latencies(measurement_tag)
          collected == Append(st.port_occupancy,
                         port_occupancy_from_tag_attributes(measurement_tag.attrib, a))
          st1 == IF Contradicting(latencies)
                 THEN [st EXCEPT !.port_occupancy = collected,
                                 !.ignore = TRUE,
                                 !.printed = Append(@,
                                    [msg |-> "Contradicting latencies found:", at |-> at])]
                 ELSE IF latencies # <<>>
                 THEN [st EXCEPT !.port_occupancy = collected,
                                 !.latency = Some(latencies[1])]
                 ELSE [st EXCEPT !.port_occupancy = collected]
      IN MeasurementLoop(Tail(tags), a, at, st1)

\* Lines 100-119: the locals after both loops.
Collected(arch_tag, a, at) ==
    LET st == MeasurementLoop(arch_tag.measurement, a, at,
                 [port_occupancy |-> <<>>, ignore |-> FALSE, latency |-> None,
                  printed |-> <<>>])
        iaca_tags == SortedIaca(arch_tag.IACA)
    IN [st EXCEPT !.port_occupancy =
          @ \o [k \in 1..Len(iaca_tags) |->
                  port_occupancy_from_tag_attributes(iaca_tags[k], a)]]

\* The vector line 127 keeps.
Authoritative(list) == list[Len(list)]

\* max(list(port_occupancy.values()) + [0.0])
SumThroughput(vector) ==
    LET ports == SortedStrings(DOMAIN vector)
    IN RSum([k \in 1..Len(ports) |-> vector[ports[k]]])
Throughput(vector) == RMax({vector[pp] : pp \in DOMAIN vector} \cup {RInt(0)})

\* Lines 133-135: the entries one instruction appends.
Entries(mnemonic, params, throughput, latency, vector) ==
    LET variants == build_variants(mnemonic, params)
    IN [k \in 1..Len(variants) |->
          [instr |-> Lower(variants[k][1]) \o <<"-">> \o Join(variants[k][2], <<"_">>),
           TP |-> throughput, LT |-> latency, ports |-> vector]]

\* One iteration of the loop over the instruction tags (lines 88-135).
ExtractInstruction ==
    /\ pc = "extract"
    /\ pos < Len(doc)
    /\ LET at == pos + 1
           instruction_tag == doc[at]
           mnemonic == instruction_tag.asm
           parsed == extract_paramters(instruction_tag.operands)
           arch_tag == ArchTag(instruction_tag, arch)
           st == Collected(arch_tag.val, arch, at)
           vector == Authoritative(st.port_occupancy)
           Continue(printed, list) ==
               /\ pc' = "extract"
               /\ stderr' = stderr \o printed
               /\ port_occupancy' = list
               /\ UNCHANGED <<model_data, origin>>
           Crash(printed, list, error) ==
               /\ pc' = "crashed"
               /\ stderr' = stderr \o printed
                             \o <<[msg |-> "Traceback", error |-> error, at |-> at]>>
               /\ port_occupancy' = list
               /\ UNCHANGED <<model_data, origin>>
           caught == IF parsed.ok THEN <<>> ELSE <<[msg |-> parsed.err, at |-> at]>>
           differ == IF SubSeq(st.port_occupancy, 2, Len(st.port_occupancy))
                          # SubSeq(st.port_occupancy, 1, Len(st.port_occupancy) - 1)
                     THEN <<[msg |-> "Contradicting port occupancies, using latest IACA:",
                             at |-> at]>>
                     ELSE <<>>
       IN /\ pos' = at
          /\ parameters' = IF parsed.ok THEN Some(parsed.val) ELSE parameters
          /\ IF ~parsed.ok /\ parsed.err # "ValueError"
               THEN Crash(<<>>, <<>>, parsed.err)
             ELSE IF arch_tag = None
               THEN Continue(caught, <<>>)
             ELSE IF st.ignore
               THEN Continue(caught \o st.printed, st.port_occupancy)
             ELSE IF st.port_occupancy = <<>>
               THEN Continue(caught \o st.printed, st.port_occupancy)
             ELSE IF parameters' = None
               THEN Crash(caught \o st.printed \o differ, st.port_occupancy,
                          "UnboundLocalError")
             ELSE LET new == Entries(mnemonic, parameters'.val, Throughput(vector),
                                     st.latency, vector)
                  IN /\ pc' = "extract"
                     /\ stderr' = stderr \o caught \o st.printed \o differ
                     /\ port_occupancy' = st.port_occupancy
                     /\ model_data' = model_data \o new
                     /\ origin' = origin \o [k \in 1..Len(new) |-> at]
    /\ UNCHANGED <<doc, arch, nports, rows, call, ret>>

(***************************************************************************)
(* dump_csv                                                                *)
(***************************************************************************)
MaxPorts == 3       \* declared ports plus pipeline ports of the architecture

\* int_or_zero
int_or_zero(s) == IF IsNumeric(s) THEN ParseInt(s) ELSE 0

Max(S) == CHOOSE x \in S : \A y \in S : y <= x

\* The while loop of lines 188-190 from the list `ports`.
RECURSIVE ExtendPorts(_, _)
ExtendPorts(ports, n) ==
    IF Len(ports) >= n THEN Returned(ports)
    ELSE IF ports = <<>> THEN Raised("ValueError")
    ELSE
      LET highest == Max({int_or_zero(ports[k]) : k \in 1..Len(ports)})
          found == {k \in 1..Len(ports) : ports[k] = Str(highest)}
          max_index == CHOOSE k \in found : \A h \in found : k <= h
      IN IF found = {} THEN Raised("ValueError")
         ELSE ExtendPorts(SubSeq(ports, 1, max_index) \o <<Str(highest + 1)>>
                            \o SubSeq(ports, max_index + 1, Len(ports)), n)

\* Lines 193-195: the vector with every port of `ports`.
Densified(vector, ports) ==
    [pp \in DOMAIN vector \cup {ports[k] : k \in 1..Len(ports)} |->
        IF pp \in DOMAIN vector THEN vector[pp] ELSE RInt(0)]

\* Lines 196-198: the fields of one line of the CSV; ports holds the values
\* of sorted(port_occupancy.items()).
Row(entry) ==
    LET keys == SortedStrings(DOMAIN entry.ports)
    IN [instr |-> entry.instr, TP |-> entry.TP, LT |-> entry.LT,
        ports |-> [k \in 1..Len(keys) |-> entry.ports[keys[k]]]]

\* dump_csv(model_data, arch) once extract_model has returned.  The vectors
\* of model_data are the dicts dump_csv fills in.
DumpCsv ==
    /\ pc = "extract"
    /\ pos = Len(doc)
    /\ \E n \in 0..MaxPorts :
         LET seen == UNION {DOMAIN model_data[k].ports : k \in 1..Len(model_data)}
             ports == ExtendPorts(SortedStrings(seen), n)
             filled == [k \in 1..Len(model_data) |->
                          [model_data[k] EXCEPT !.ports = Densified(@, ports.val)]]
         IN /\ nports' = n
            /\ IF ports.ok
               THEN /\ pc' = "done"
                    /\ model_data' = filled
                    /\ rows' = [k \in 1..Len(filled) |-> Row(filled[k])]
                    /\ UNCHANGED stderr
               ELSE /\ pc' = "crashed"
                    /\ stderr' = Append(stderr,
                          [msg |-> "Traceback", error |-> ports.err, at |-> 0])
                    /\ UNCHANGED <<model_data, rows>>
    /\ UNCHANGED <<doc, arch, pos, parameters, origin, port_occupancy, call, ret>>

(***************************************************************************)
(* Documents                                                               *)
(***************************************************************************)
MaxInstr == 2       \* instruction tags of a document

Key(digits) == <<"p", "o", "r", "t">> \o digits

\* Attribute maps of measurement tags.
AttrNone == <<>>
AttrP2 == (Key(<<"2">>) :> <<"1">>)
AttrP23 == (Key(<<"2", "3">>) :> <<"2">>)
AttrP237 == (Key(<<"2", "3", "7">>) :> <<"2">>)
AttrDiv == (div_cycles :> <<"2">>)

\* Attribute maps of latency tags.
Lat3 == ("cycles" :> <<"3">>) @@ ("latency" :> <<"1">>)
Lat4 == ("cycles" :> <<"4">>) @@ ("latency" :> <<"1">>)
Cyc4 == ("cycles" :> <<"4">>) @@ ("start_op" :> <<"1">>)

Reg(i, text) == [idx |-> i, suppressed |-> <<"0">>, type |-> "reg", text |-> text]

\* Operand lists: a 32-bit register; a register of unknown name.
OpsEAX == <<Reg(<<"1">>, <<"E", "A", "X">>)>>
OpsFOO == <<Reg(<<"1">>, <<"F", "O", "O">>)>>

mov == <<"m", "o", "v">>

\* The documents of Spec: every instruction has at most one measurement tag
\* and at most one IACA tag for the architecture, or a tag for another
\* architecture only.
SpecMeasurements ==
    { [attrib |-> AttrP23, latency |-> <<>>],
      [attrib |-> AttrNone, latency |-> <<Lat3>>],
      [attrib |-> AttrP2, latency |-> <<Lat3, Lat4>>] }
SpecIaca == { AttrDiv @@ (version :> <<"2", ".", "1">>) }
SpecArchitectures ==
    { <<[name |-> "SNB", measurement |-> <<[attrib |-> AttrP2, latency |-> <<>>]>>,
         IACA |-> <<>>]>> }
    \cup
    { <<[name |-> "SKL", measurement |-> ms, IACA |-> is]>> :
        ms \in SeqUpTo(SpecMeasurements, 1), is \in SeqUpTo(SpecIaca, 1) }
SpecInstructions ==
    [asm : {mov}, operands : {OpsEAX, OpsFOO}, architectures : SpecArchitectures]

PipelineStart ==
    /\ arch = "SKL" /\ pos = 0 /\ parameters = None /\ model_data = <<>>
    /\ origin = <<>> /\ stderr = <<>> /\ pc = "extract" /\ nports = 0
    /\ rows = <<>> /\ port_occupancy = <<>>
    /\ call = [fn |-> "main"] /\ ret = None

Init ==
    /\ doc \in SeqUpTo(SpecInstructions, MaxInstr)
    /\ PipelineStart

Next == ExtractInstruction \/ DumpCsv

Spec == Init /\ [][Next]_vars

(***************************************************************************)
(* SpecPorts: one instruction with several measurement and IACA tags       *)
(***************************************************************************)
MaxMeas == 2        \* measurement tags of an architecture tag
MaxIaca == 2        \* IACA tags of an architecture tag

PortsMeasurements ==
    { [attrib |-> AttrP2, latency |-> <<>>],
      [attrib |-> AttrP23, latency |-> <<>>],
      [attrib |-> AttrP2, latency |-> <<Lat3, Lat4>>] }
PortsIaca ==
    { a @@ (version :> v) :
        a \in {AttrP2, AttrP237}, v \in {<<"2", ".", "9">>, <<"2", ".", "1", "0">>} }

InitPorts ==
    /\ doc \in { <<[asm |-> mov, operands |-> OpsEAX,
                    architectures |-> <<[name |-> "SKL", measurement |-> ms,
                                         IACA |-> is]>>]>> :
                   ms \in SeqUpTo(PortsMeasurements, MaxMeas),
                   is \in SeqUpTo(PortsIaca, MaxIaca) }
    /\ PipelineStart

SpecPorts == InitPorts /\ [][Next]_vars

(***************************************************************************)
(* SpecLat: one instruction whose measurement tags have latency tags       *)
(***************************************************************************)
\* Lists of latency tags: none; one sample; a tag without the latency
\* attribute; two and three agreeing samples; disagreeing samples; a sample
\* and a tag without the attribute that names another cycle count.
LatencyLists ==
    { <<>>, <<Lat3>>, <<Lat4>>, <<Cyc4>>, <<Lat3, Lat3>>, <<Lat3, Lat3, Lat3>>,
      <<Lat3, Lat4>>, <<Lat3, Cyc4>>, <<Lat4, Cyc4, Lat3>> }

LatMeasurements == { [attrib |-> AttrP2, latency |-> ls] : ls \in LatencyLists }

InitLat ==
    /\ doc \in { <<[asm |-> mov, operands |-> OpsEAX,
                    architectures |-> <<[name |-> "SKL", measurement |-> ms,
                                         IACA |-> <<>>]>>]>> :
                   ms \in SeqUpTo(LatMeasurements, MaxMeas) }
    /\ PipelineStart

SpecLat == InitLat /\ [][Next]_vars

(***************************************************************************)
(* Claims about extract_model and dump_csv                                 *)
(***************************************************************************)
EntriesOf(k) == {j \in 1..Len(model_data) : origin[j] = k}
LinesOf(k) == {j \in 1..Len(stderr) : stderr[j].at = k}
Printed(k, msg) == \E j \in LinesOf(k) : stderr[j].msg = msg

\* The samples of a measurement tag disagree with each other.
Disagree(measurement_tag) ==
    Cardinality({Latencies(measurement_tag)[j] :
                    j \in 1..Len(Latencies(measurement_tag))}) > 1

Permutations1(n) == {f \in [1..n -> 1..n] : \A i, j \in 1..n : f[i] = f[j] => i = j}

\* C1, the order: the collected vectors are those of the measurement tags in
\* document order, followed by those of the IACA tags in ascending version.
C1_Order ==
    LET tag == doc[1].architectures[1]
        ms == tag.measurement
        is == tag.IACA
    IN \E f \in Permutations1(Len(is)) :
         /\ \A k \in 1..(Len(is) - 1) :
              ~TupleLess(StrictVersion(is[f[k + 1]][version]),
                         StrictVersion(is[f[k]][version]))
         /\ port_occupancy =
              [k \in 1..Len(ms) |->
                 port_occupancy_from_tag_attributes(ms[k].attrib, arch)]
              \o [k \in 1..Len(is) |->
                    port_occupancy_from_tag_attributes(is[f[k]], arch)]

\* C1, the choice: every emitted entry holds the last collected vector, which
\* is the vector of an IACA tag of the highest version when there is one.
C1_Last ==
    LET is == doc[1].architectures[1].IACA
        newest == {k \in 1..Len(is) :
                     \A h \in 1..Len(is) :
                        ~TupleLess(StrictVersion(is[k][version]),
                                   StrictVersion(is[h][version]))}
    IN \A j \in EntriesOf(1) :
         /\ port_occupancy # <<>>
         /\ model_data[j].ports = port_occupancy[Len(port_occupancy)]
         /\ is # <<>> =>
              \E k \in newest :
                 model_data[j].ports = port_occupancy_from_tag_attributes(is[k], arch)

C1_Differ == \E i, j \in 1..Len(port_occupancy) : port_occupancy[i] # port_occupancy[j]

C4_Common(ms) ==
    LET sampled == {k \in 1..Len(ms) : Latencies(ms[k]) # <<>>}
    IN IF sampled = {} THEN None
       ELSE Some(Latencies(ms[CHOOSE k \in sampled : \A h \in sampled : h <= k])[1])

C5_FailedParseSkipped ==
    pc \in {"extract", "done", "crashed"} =>
      \A k \in 1..pos :
        ~extract_paramters(doc[k].operands).ok =>
            /\ EntriesOf(k) = {}
            /\ ~Printed(k, "Traceback")

\* The instruction has no tag for the architecture, or its tag has neither a
\* measurement nor an IACA tag.
C10_NoData(instruction_tag) ==
    \A j \in 1..Len(instruction_tag.architectures) :
       instruction_tag.architectures[j].name = arch =>
          /\ instruction_tag.architectures[j].measurement = <<>>
          /\ instruction_tag.architectures[j].IACA = <<>>

\* C10: an instruction without data for the architecture contributes no
\* entry; its iteration prints nothing about the missing data (the one line it
\* can print is the report of a failed operand normalization, which precedes
\* the lookup) and does not end the run.
C10_NoDataNoEntry ==
    pc \in {"extract", "done", "crashed"} =>
      \A k \in 1..pos :
        C10_NoData(doc[k]) =>
            /\ EntriesOf(k) = {}
            /\ \A j \in LinesOf(k) : stderr[j].msg = "ValueError"

\* The first instruction has a tag for SNB only, the second has data: the
\* table holds entries of the second alone.
C10_Witness ==
    /\ pos = 2 /\ pc = "extract"
    /\ doc[1].architectures # <<>>
    /\ doc[1].architectures[1].name = "SNB"
    /\ doc[1].operands = OpsEAX
    /\ EntriesOf(1) = {}
    /\ EntriesOf(2) # {}
    /\ stderr = <<>>

\* C2: the throughput of every entry is the greatest value of the entry's
\* vector, 0 when the vector is empty, before and after dump_csv has filled
\* the vector in; the entries of one instruction hold one throughput and one
\* vector; and a CSV row holds the throughput of its entry.
C2_ThroughputIsMax ==
    pc \in {"extract", "done", "crashed"} =>
      /\ \A j \in 1..Len(model_data) :
           LET e == model_data[j]
               values == {e.ports[pp] : pp \in DOMAIN e.ports}
           IN /\ values = {} => e.TP = RInt(0)
              /\ values # {} => e.TP \in values /\ \A v \in values : RLeq(v, e.TP)
              /\ \A h \in EntriesOf(origin[j]) :
                   model_data[h].TP = e.TP /\ model_data[h].ports = e.ports
      /\ \A j \in 1..Len(rows) :
           /\ rows[j].TP = model_data[j].TP
           /\ rows[j].ports # <<>> =>
                /\ \E k \in 1..Len(rows[j].ports) : rows[j].ports[k] = rows[j].TP
                /\ \A k \in 1..Len(rows[j].ports) : RLeq(rows[j].ports[k], rows[j].TP)

\* dump_csv has run: two entries of one instruction hold a vector with a
\* filled-in 0.0 and a throughput that is not 0.
C2_Witness ==
    /\ pc = "done"
    /\ \E j, h \in 1..Len(model_data) :
         /\ j # h /\ origin[j] = origin[h]
         /\ model_data[j].TP # RInt(0)
         /\ \E pp \in DOMAIN model_data[j].ports : model_data[j].ports[pp] = RInt(0)
         /\ rows[j].TP = model_data[j].TP

\* C9: dump_csv runs its loop to the end and renders one row per entry, every
\* row with max(number of ports seen, declared ports) values, the ports an
\* entry lacks filled with 0.0, the values in ascending order of port
\* identifier; also for an empty table and for one whose only port is 0DV.
C9_RowsAreDense ==
    [][(pc = "extract" /\ pos = Len(doc) /\ pc' # "extract") =>
         LET seen == UNION {DOMAIN model_data[k].ports : k \in 1..Len(model_data)}
             width == IF Cardinality(seen) > nports' THEN Cardinality(seen) ELSE nports'
         IN /\ pc' = "done"
            /\ Len(rows') = Len(model_data)
            /\ \A k \in 1..Len(model_data) :
                 LET was == model_data[k].ports
                     now == model_data'[k].ports
                     keys == SortedStrings(DOMAIN now)
                 IN /\ seen \subseteq DOMAIN now
                    /\ Cardinality(DOMAIN now) = width
                    /\ \A pp \in DOMAIN now :
                         now[pp] = IF pp \in DOMAIN was THEN was[pp] ELSE RInt(0)
                    /\ rows'[k].ports = [j \in 1..Len(keys) |-> now[keys[j]]]
      ]_vars

====
